---- MODULE Spec2Model ----
(***************************************************************************)
(* Model of the request-dispatch core of buckets-mdapi                      *)
(* (src/buckets-mdapi/src/lib.rs, module util): handle_msg,                *)
(* claim_pool_connection, handle_request, unwrap_fast_message.             *)
(*                                                                         *)
(* Each worker thread of the Fast server runs handle_msg for one inbound   *)
(* message at a time.  The connection pool and the metrics are shared by   *)
(* all workers.  A call is cut into steps at the points where it touches   *)
(* shared state (counter, pool, histograms) and at the invocation of the   *)
(* action; the stages of the Result combinator chain of handle_msg that    *)
(* are local to the call are applied in their order inside a step.         *)
(*                                                                         *)
(* Texts are sequences of string tokens: format!("a {} b", x) is           *)
(* <<"a ", x, " b">>.                                                      *)
(***************************************************************************)
EXTENDS Integers, Sequences, FiniteSets, TLC

VARIABLES
    pool,                   \* idle connections of the cueball pool
    conns,                  \* connections the pool has established
    request_count,          \* metrics.request_count
    connection_claim_times, \* metrics.connection_claim_times: label -> observations
    fast_requests,          \* metrics.fast_requests: <<method, label>> -> observations
    calls,                  \* number of handle_msg calls entered so far
    pc,                     \* per worker: position inside handle_msg
    msg,                    \* per worker: the FastMessage being handled
    conn,                   \* per worker: connection owned by the call (0: none)
    connection_acquired,    \* per worker: local flag of handle_msg
    log,                    \* per worker: log records emitted by the call
    events,                 \* per worker: effects of the call, in order
    claim_result,           \* per worker: result of pool.claim()
    res,                    \* per worker: Result flowing through the combinator chain
    response,               \* per worker: local vector of handle_msg
    invoked                 \* per worker: arguments and result of each action invocation

vars == <<pool, conns, request_count, connection_claim_times, fast_requests,
          calls, pc, msg, claim_result, conn, res, connection_acquired,
          response, log, events, invoked>>

shared == <<pool, conns, request_count, connection_claim_times, fast_requests, calls>>

-----------------------------------------------------------------------------
(* Bounds *)

NumWorkers == 2        \* worker threads calling handle_msg
PoolSize == 1          \* maximum number of connections of the pool
MaxCalls == 1          \* calls entered in a run of Spec (one call at a time)
MaxConcCalls == 2      \* calls entered in a run of SpecConc (interleaved)
MaxLen == 2            \* longest payload array of a request
MaxMsgs == 2           \* longest Messages result of an action
MaxLiveCalls == 2      \* calls entered in a run of SpecLive (interleaved, fair)

Workers == 1 .. NumWorkers

-----------------------------------------------------------------------------
(* Result<T, E> and its combinators *)

(* The fields of one name hold values of one kind in every place. *)
Ok(v) == [tag |-> "Ok", v |-> v]
Err(e) == [tag |-> "Err", e |-> e]
is_ok(r) == r.tag = "Ok"

(* types::HandlerError *)
Cueball(cueball_err) == [kind |-> "Cueball", cueball_err |-> cueball_err]
IO(io_err) == [kind |-> "IO", io_err |-> io_err]

(* types::HandlerResponse *)
Message(fm) == [kind |-> "Message", m |-> fm]
Messages(fms) == [kind |-> "Messages", ms |-> fms]

(* fast_rpc FastMessage::data(id, FastMessageData::new(name, d)) *)
FastMessage(id, name, d) == [id |-> id, status |-> "Data", name |-> name, d |-> d]

other_error(m) == [kind |-> "Other", msg |-> m]

array_wrap(v) == <<v>>

(* cueball PoolConnection: the guard that owns connection c of the pool *)
PoolConnection(c) == [conn |-> c]

(* Vec<FastMessage>: the vector a call returns *)
Vec(fms) == [vec |-> fms]

-----------------------------------------------------------------------------
(* The pool's errors and their Display text *)

ClaimFailure == "ClaimFailure"
CueballErrors == {"ClaimFailure", "ConnectionRetrievalFailure"}

to_string(e) == <<"cueball::Error::" \o e>>

SerdeErrorText == <<"serde_json::Error">>

-----------------------------------------------------------------------------
(* Requests *)

Ids == {1, 2}
RegisteredMethods ==
    {"getobject", "createobject", "updateobject", "deleteobject", "listobjects",
     "getbucket", "createbucket", "deletebucket", "listbuckets",
     "getgcbatch", "deletegcbatch"}
UnregisteredMethods == {"frobnicate", "", "GetObject"}
MethodNames == RegisteredMethods \cup UnregisteredMethods

(* The data of a request: JSON that is not an array of payload objects, or an
   array of 0 .. MaxLen distinct payload objects. *)
JsonItem(i) == <<"payload", i>>
Malformed == [json |-> "malformed", arr |-> <<>>]
JsonArray(n) == [json |-> "array", arr |-> [i \in 1 .. n |-> JsonItem(i)]]
Payloads == {Malformed} \cup { JsonArray(n) : n \in 0 .. MaxLen }

Request(id, name, d) == [id |-> id, name |-> name, d |-> d]
Msgs == { Request(id, name, d) : id \in Ids, name \in MethodNames, d \in Payloads }
ConcMsgs == { Request(1, "getobject", d) : d \in {Malformed, JsonArray(0), JsonArray(1)} }
            \cup { Request(1, "frobnicate", JsonArray(1)) }

LiveMsgs == { Request(1, "getobject", JsonArray(1)) }

NoMsg == Request(0, "", Malformed)
NoResult == [tag |-> "None"]

Labels == {"true", "false"}

Event(ev, arg) == [ev |-> ev, arg |-> arg]
Count(w, ev) == Cardinality({ i \in DOMAIN events[w] : events[w][i].ev = ev })

LogRecord(level, text) == [level |-> level, text |-> text]

-----------------------------------------------------------------------------
Init ==
    /\ conns \in { 1 .. n : n \in 0 .. PoolSize }
    /\ pool = conns
    /\ request_count = 0
    /\ connection_claim_times = [l \in Labels |-> 0]
    /\ fast_requests = [k \in MethodNames \X Labels |-> 0]
    /\ calls = 0
    /\ pc = [w \in Workers |-> "idle"]
    /\ msg = [w \in Workers |-> NoMsg]
    /\ claim_result = [w \in Workers |-> NoResult]
    /\ conn = [w \in Workers |-> 0]
    /\ res = [w \in Workers |-> NoResult]
    /\ connection_acquired = [w \in Workers |-> TRUE]
    /\ response = [w \in Workers |-> <<>>]
    /\ log = [w \in Workers |-> <<>>]
    /\ events = [w \in Workers |-> <<>>]
    /\ invoked = [w \in Workers |-> <<>>]

-----------------------------------------------------------------------------
(* Pure parts of the dispatch *)

(* Variant: the counter is not touched. *)
inc_none(c) == c

inc(c) == c + 1

observe(h, k) == [h EXCEPT ![k] = @ + 1]

(* Variant: the claim is always labelled a success. *)
claim_success_always(r) == "true"

claim_success(r) == IF is_ok(r) THEN "true" ELSE "false"

(* Variant: the getbucket arm was copied from the getobject arm and kept its
   decode function and action. *)
Registry_copied_arm ==
    [getobject     |-> [decode |-> "object::get::decode_msg",    action |-> "object::get::action"],
     createobject  |-> [decode |-> "object::create::decode_msg", action |-> "object::create::action"],
     updateobject  |-> [decode |-> "object::update::decode_msg", action |-> "object::update::action"],
     deleteobject  |-> [decode |-> "object::delete::decode_msg", action |-> "object::delete::action"],
     listobjects   |-> [decode |-> "object::list::decode_msg",   action |-> "object::list::action"],
     getbucket     |-> [decode |-> "object::get::decode_msg",    action |-> "object::get::action"],
     createbucket  |-> [decode |-> "bucket::create::decode_msg", action |-> "bucket::create::action"],
     deletebucket  |-> [decode |-> "bucket::delete::decode_msg", action |-> "bucket::delete::action"],
     listbuckets   |-> [decode |-> "bucket::list::decode_msg",   action |-> "bucket::list::action"],
     getgcbatch    |-> [decode |-> "gc::get::decode_msg",        action |-> "gc::get::action"],
     deletegcbatch |-> [decode |-> "gc::delete::decode_msg",     action |-> "gc::delete::action"]]

(* The match of handle_msg: wire name -> the decode function and the action
   handed to handle_request. *)
Registry ==
    [getobject     |-> [decode |-> "object::get::decode_msg",    action |-> "object::get::action"],
     createobject  |-> [decode |-> "object::create::decode_msg", action |-> "object::create::action"],
     updateobject  |-> [decode |-> "object::update::decode_msg", action |-> "object::update::action"],
     deleteobject  |-> [decode |-> "object::delete::decode_msg", action |-> "object::delete::action"],
     listobjects   |-> [decode |-> "object::list::decode_msg",   action |-> "object::list::action"],
     getbucket     |-> [decode |-> "bucket::get::decode_msg",    action |-> "bucket::get::action"],
     createbucket  |-> [decode |-> "bucket::create::decode_msg", action |-> "bucket::create::action"],
     deletebucket  |-> [decode |-> "bucket::delete::decode_msg", action |-> "bucket::delete::action"],
     listbuckets   |-> [decode |-> "bucket::list::decode_msg",   action |-> "bucket::list::action"],
     getgcbatch    |-> [decode |-> "gc::get::decode_msg",        action |-> "gc::get::action"],
     deletegcbatch |-> [decode |-> "gc::delete::decode_msg",     action |-> "gc::delete::action"]]

is_registered(method) == method \in DOMAIN Registry

(* Variant: the message leaves the method name out. *)
unsupported_noname(method) == Err(IO(other_error(<<"Unsupported functon">>)))

unsupported(method) == Err(IO(other_error(<<"Unsupported functon: ", method>>)))

(* A decoded payload exposes the request id of its JSON object. *)
Payload(j) == [request_id |-> j]

(* <domain>::<op>::decode_msg: serde_json::from_value::<Vec<Payload>> of the
   raw data of the message. *)
decode_msg(d) ==
    IF d.json = "malformed"
    THEN Err(SerdeErrorText)
    ELSE Ok([i \in DOMAIN d.arr |-> Payload(d.arr[i])])

envelope_error(operation) ==
    <<"Failed to parse JSON data as payload for ", operation, " function">>

(* Variant: an empty array yields a default payload instead of an error. *)
unwrap_fast_message_default(operation, arr) ==
    IF arr = <<>>
    THEN Ok(Payload(JsonItem(0)))
    ELSE Ok(Head(arr))

(* Variant: arr.pop() instead of arr.remove(0). *)
unwrap_fast_message_last(operation, arr) ==
    IF arr = <<>>
    THEN Err(envelope_error(operation))
    ELSE Ok(arr[Len(arr)])

unwrap_fast_message(operation, arr) ==
    IF arr = <<>>
    THEN Err(envelope_error(operation))
    ELSE Ok(Head(arr))

(* Variant: a payload that does not decode is taken for an empty array. *)
handle_request_payload_lenient(method, data) ==
    IF is_ok(data)
    THEN unwrap_fast_message(method, data.v)
    ELSE unwrap_fast_message(method, <<>>)

(* handle_request up to the invocation of the action:
   data.map_err(|e| e.to_string()).and_then(unwrap_fast_message) *)
handle_request_payload(method, data) ==
    IF is_ok(data)
    THEN unwrap_fast_message(method, data.v)
    ELSE Err(data.e)

(* The body of the overload response. *)
overloaded_value ==
    array_wrap([error |-> [name |-> "OverloadedError",
                           message |-> to_string(ClaimFailure)]])

(* Variant: the response is built with a fixed id. *)
overloaded_response_noid(id, method) == Message(FastMessage(0, method, overloaded_value))

overloaded_response(id, method) == Message(FastMessage(id, method, overloaded_value))

(* Variant: a Messages result is pushed message by message from its end. *)
collect_reversed(resp, hr) ==
    IF hr.kind = "Message"
    THEN Append(resp, hr.m)
    ELSE resp \o [i \in 1 .. Len(hr.ms) |-> hr.ms[Len(hr.ms) + 1 - i]]

(* The match of the "Add application level response" stage *)
collect(resp, hr) ==
    IF hr.kind = "Message" THEN Append(resp, hr.m) ELSE resp \o hr.ms

(* .and_then(|res| ...): the HandlerResponse goes into the response vector. *)
and_then_response(r, resp) ==
    IF is_ok(r) THEN Ok(Vec(collect(resp, r.v))) ELSE r

(* Variant: the first arm matches every pool error. *)
is_claim_timeout_any(err) == err.kind = "Cueball"

(* The first arm of the match on the claim error: the claim timeout. *)
is_claim_timeout(err) == err.kind = "Cueball" /\ err.cueball_err = ClaimFailure

(* .or_else(|err| ...): what becomes of an error of the claim or of the
   dispatch. *)
or_else_claim(r, id, method) ==
    IF is_ok(r) THEN r
    ELSE IF is_claim_timeout(r.e) THEN Ok(overloaded_response(id, method))
    ELSE r

(* The log records of that stage *)
or_else_claim_log(r) ==
    IF is_ok(r) THEN <<>>
    ELSE IF is_claim_timeout(r.e)
    THEN <<LogRecord("warn", <<"timed out claiming connection">>)>>
    ELSE IF r.e.kind = "Cueball"
    THEN <<LogRecord("error", <<"unexpected error claiming connection">>)>>
    ELSE <<>>

(* Variant: connection_acquired is ignored. *)
request_success_always(acquired) == "true"

request_success(acquired) == IF acquired THEN "true" ELSE "false"

(* Request metrics of a call that returns Ok *)
record_success(h, method, acquired) == observe(h, <<method, request_success(acquired)>>)

(* Variant: a failed call records nothing. *)
record_failure_none(h, method) == h

(* Request metrics of a call that returns Err *)
record_failure(h, method) == observe(h, <<method, "false">>)

(* Variant: every failure leaves with one fixed text. *)
ret_err_generic(err) == other_error(<<"request failed">>)

ret_err(err) ==
    IF err.kind = "Cueball" THEN other_error(to_string(err.cueball_err)) ELSE err.io_err

-----------------------------------------------------------------------------
(* What an action can return: one message, a list of no or of MaxMsgs
   distinct messages, or an error string.  The messages carry the id and the method
   name the action was given. *)

ActionErrorText == <<"action failed">>
ResultMessage(id, method, i) == FastMessage(id, method, array_wrap([result |-> i]))

ActionOk(id, method) ==
    { Message(ResultMessage(id, method, 1)) }
    \cup { Messages([i \in 1 .. n |-> ResultMessage(id, method, i)]) : n \in {0, MaxMsgs} }

-----------------------------------------------------------------------------
(* Steps of one handle_msg call by worker w *)

Emit(w, ev, arg) == events' = [events EXCEPT ![w] = Append(@, Event(ev, arg))]

(* Entry of handle_msg for message m: the locals and the request counter. *)
handle_msg(w, m) ==
    /\ pc[w] = "idle"
    /\ pc' = [pc EXCEPT ![w] = "claim"]
    /\ msg' = [msg EXCEPT ![w] = m]
    /\ response' = [response EXCEPT ![w] = <<>>]
    /\ request_count' = inc(request_count)
    /\ connection_acquired' = [connection_acquired EXCEPT ![w] = TRUE]
    /\ calls' = calls + 1
    /\ Emit(w, "request_count.inc", "")
    /\ UNCHANGED <<pool, conns, connection_claim_times, fast_requests,
                   claim_result, conn, res, log, invoked>>

(* Variant: a claim without a bound on the wait: it returns only once a
   connection is idle. *)
pool_claim_wait(w) ==
    /\ pc[w] = "claim"
    /\ pc' = [pc EXCEPT ![w] = "claimed"]
    /\ \E c \in pool :
         /\ claim_result' = [claim_result EXCEPT ![w] = Ok(PoolConnection(c))]
         /\ conn' = [conn EXCEPT ![w] = c]
         /\ pool' = pool \ {c}
    /\ Emit(w, "pool.claim", "")
    /\ UNCHANGED <<conns, request_count, connection_claim_times, fast_requests,
                   calls, msg, res, connection_acquired, response, log, invoked>>

(* pool.claim(): a connection when one is idle; the claim timeout when none
   became idle within the pool's bound; or any other pool error. *)
pool_claim(w) ==
    /\ pc[w] = "claim"
    /\ pc' = [pc EXCEPT ![w] = "claimed"]
    /\ \/ \E c \in pool :
            /\ conn' = [conn EXCEPT ![w] = c]
            /\ pool' = pool \ {c}
            /\ claim_result' = [claim_result EXCEPT ![w] = Ok(PoolConnection(c))]
       \/ /\ pool = {}
          /\ UNCHANGED <<conn, pool>>
          /\ claim_result' = [claim_result EXCEPT ![w] = Err(ClaimFailure)]
       \/ \E e \in CueballErrors \ {ClaimFailure} :
            /\ UNCHANGED <<conn, pool>>
            /\ claim_result' = [claim_result EXCEPT ![w] = Err(e)]
    /\ Emit(w, "pool.claim", "")
    /\ UNCHANGED <<conns, request_count, connection_claim_times, fast_requests,
                   calls, msg, res, connection_acquired, response, log, invoked>>

(* Rest of claim_pool_connection, and .map_err(HandlerError::Cueball) *)
claim_pool_connection(w) ==
    /\ pc[w] = "claimed"
    /\ pc' = [pc EXCEPT ![w] = "dispatch"]
    /\ LET success == claim_success(claim_result[w]) IN
         /\ connection_claim_times' = observe(connection_claim_times, success)
         /\ Emit(w, "connection_claim_times.observe", success)
    /\ res' = [res EXCEPT ![w] = IF is_ok(claim_result[w])
                                 THEN claim_result[w]
                                 ELSE Err(Cueball(claim_result[w].e))]
    /\ UNCHANGED <<pool, conns, request_count, fast_requests, calls, msg,
                   claim_result, conn, connection_acquired, response, log, invoked>>

(* Variant: the method is looked up before the outcome of the claim is
   looked at, so an unregistered name is rejected also when the claim failed. *)
dispatch_lookup_first(w) ==
    /\ pc[w] = "dispatch"
    /\ LET method == msg[w].name IN
       IF ~is_registered(method)
       THEN /\ pc' = [pc EXCEPT ![w] = IF is_ok(res[w]) THEN "drop" ELSE "respond"]
            /\ res' = [res EXCEPT ![w] = unsupported(method)]
            /\ Emit(w, "lookup", method)
            /\ UNCHANGED log
       ELSE IF ~is_ok(res[w])
       THEN /\ pc' = [pc EXCEPT ![w] = "respond"]
            /\ UNCHANGED <<res, log, events>>
       ELSE LET data == decode_msg(msg[w].d)
                payload == handle_request_payload(method, data)
                handling == LogRecord("debug", <<"handling request">>)
            IN  /\ pc' = [pc EXCEPT ![w] = IF is_ok(payload) THEN "action" ELSE "drop"]
                /\ events' = [events EXCEPT ![w] =
                        @ \o <<Event("lookup", method),
                               Event("decode_msg", Registry[method].decode)>>]
                /\ IF is_ok(payload)
                   THEN /\ res' = [res EXCEPT ![w] = payload]
                        /\ log' = [log EXCEPT ![w] = Append(@, handling)]
                   ELSE /\ res' = [res EXCEPT ![w] = Err(IO(other_error(payload.e)))]
                        /\ log' = [log EXCEPT ![w] =
                                @ \o <<handling>> \o
                                (IF is_ok(data)
                                 THEN <<LogRecord("warn", payload.e)>>
                                 ELSE <<>>)]
    /\ UNCHANGED <<shared, msg, claim_result, conn, connection_acquired,
                   response, invoked>>

(* .and_then(|mut conn| match method {...}): lookup, decode and envelope.
   Skipped when the claim failed. *)
dispatch(w) ==
    /\ pc[w] = "dispatch"
    /\ LET method == msg[w].name IN
       IF ~is_ok(res[w])
       THEN /\ pc' = [pc EXCEPT ![w] = "respond"]
            /\ UNCHANGED <<res, log, events>>
       ELSE IF ~is_registered(method)
       THEN /\ pc' = [pc EXCEPT ![w] = "drop"]
            /\ res' = [res EXCEPT ![w] = unsupported(method)]
            /\ Emit(w, "lookup", method)
            /\ UNCHANGED log
       ELSE LET data == decode_msg(msg[w].d)
                payload == handle_request_payload(method, data)
                handling == LogRecord("debug", <<"handling request">>)
            IN  /\ pc' = [pc EXCEPT ![w] = IF is_ok(payload) THEN "action" ELSE "drop"]
                /\ events' = [events EXCEPT ![w] =
                        @ \o <<Event("lookup", method),
                               Event("decode_msg", Registry[method].decode)>>]
                /\ IF is_ok(payload)
                   THEN /\ res' = [res EXCEPT ![w] = payload]
                        /\ log' = [log EXCEPT ![w] = Append(@, handling)]
                   ELSE /\ res' = [res EXCEPT ![w] = Err(IO(other_error(payload.e)))]
                        /\ log' = [log EXCEPT ![w] =
                                @ \o <<handling>> \o
                                (IF is_ok(data)
                                 THEN <<LogRecord("warn", payload.e)>>
                                 ELSE <<>>)]
    /\ UNCHANGED <<shared, msg, claim_result, conn, connection_acquired,
                   response, invoked>>

(* Variant: the adapter hands the action a fixed id instead of msg_id. *)
invocation_fixed_id(msg_id, method, payload, c) ==
    [action |-> Registry[method].action, msg_id |-> 0, method |-> method,
     payload |-> payload, conn |-> c]

(* action(msg_id, &method, metrics, &log_child, payload, conn): the action of
   the method's arm and the arguments it is given. *)
invocation(msg_id, method, payload, c) ==
    [action |-> Registry[method].action, msg_id |-> msg_id, method |-> method,
     payload |-> payload, conn |-> c]

(* handle_request invokes the action with the first payload; the action's
   error string becomes HandlerError::IO.  invoked keeps the arguments of the
   invocation together with what the action returned. *)
action(w) ==
    /\ pc[w] = "action"
    /\ pc' = [pc EXCEPT ![w] = "drop"]
    /\ LET args == invocation(msg[w].id, msg[w].name, res[w].v, conn[w]) IN
           /\ Emit(w, "action", args.action)
           /\ log' = [log EXCEPT ![w] = Append(@, LogRecord("debug", <<"parsed payload">>))]
           /\ \/ \E hr \in ActionOk(args.msg_id, args.method) :
                    /\ res' = [res EXCEPT ![w] = Ok(hr)]
                    /\ invoked' = [invoked EXCEPT ![w] =
                            Append(@, args @@ [result |-> Ok(hr)])]
              \/ /\ res' = [res EXCEPT ![w] = Err(IO(other_error(ActionErrorText)))]
                 /\ invoked' = [invoked EXCEPT ![w] =
                         Append(@, args @@ [result |-> Err(ActionErrorText)])]
    /\ UNCHANGED <<shared, msg, claim_result, conn, connection_acquired, response>>

(* Variant: the default arm of the match leaves without releasing the
   connection. *)
drop_registered(w) ==
    /\ pc[w] = "drop"
    /\ pc' = [pc EXCEPT ![w] = "respond"]
    /\ pool' = IF is_registered(msg[w].name) THEN pool \cup {conn[w]} ELSE pool
    /\ conn' = [conn EXCEPT ![w] = IF is_registered(msg[w].name) THEN 0 ELSE @]
    /\ Emit(w, "drop", "")
    /\ UNCHANGED <<conns, request_count, connection_claim_times, fast_requests,
                   calls, msg, claim_result, res, connection_acquired, response,
                   log, invoked>>

(* Variant: the closure does not release the connection; the call keeps it
   beyond the metrics. *)
drop_deferred(w) ==
    /\ pc[w] = "drop"
    /\ pc' = [pc EXCEPT ![w] = "respond"]
    /\ UNCHANGED <<shared, msg, claim_result, conn, res, connection_acquired,
                   response, log, events, invoked>>

(* Variant: the connection is handed back on the success path only. *)
drop_on_success(w) ==
    /\ pc[w] = "drop"
    /\ pc' = [pc EXCEPT ![w] = "respond"]
    /\ pool' = IF is_ok(res[w]) THEN pool \cup {conn[w]} ELSE pool
    /\ conn' = [conn EXCEPT ![w] = IF is_ok(res[w]) THEN 0 ELSE @]
    /\ Emit(w, "drop", "")
    /\ UNCHANGED <<conns, request_count, connection_claim_times, fast_requests,
                   calls, msg, claim_result, res, connection_acquired, response,
                   log, invoked>>

(* End of the dispatch closure: the PoolConnection it owns is dropped, which
   hands the connection back to the pool. *)
drop(w) ==
    /\ pc[w] = "drop"
    /\ pc' = [pc EXCEPT ![w] = "respond"]
    /\ pool' = pool \cup {conn[w]}
    /\ conn' = [conn EXCEPT ![w] = 0]
    /\ Emit(w, "drop", "")
    /\ UNCHANGED <<conns, request_count, connection_claim_times, fast_requests,
                   calls, msg, claim_result, res, connection_acquired, response,
                   log, invoked>>

(* .or_else(|err| ...) on a claim error, then .and_then(|res| ...) that puts
   the HandlerResponse into the response vector.  Both are local to the
   call. *)
respond(w) ==
    /\ pc[w] = "respond"
    /\ pc' = [pc EXCEPT ![w] = "record"]
    /\ LET r2 == or_else_claim(res[w], msg[w].id, msg[w].name)
           r3 == and_then_response(r2, response[w])
       IN  /\ res' = [res EXCEPT ![w] = r3]
           /\ response' = [response EXCEPT ![w] = IF is_ok(r3) THEN r3.v.vec ELSE @]
    /\ connection_acquired' = [connection_acquired EXCEPT ![w] = is_ok(res[w]) /\ @]
    /\ log' = [log EXCEPT ![w] = @ \o or_else_claim_log(res[w])]
    /\ UNCHANGED <<shared, msg, claim_result, conn, events, invoked>>

(* .and_then(|res| ...) with the request metrics of a call that returns Ok,
   then .or_else(|err| ...) with the request metrics of a failed call and the
   conversion of its error to an IOError. *)
record(w) ==
    /\ pc[w] = "record"
    /\ pc' = [pc EXCEPT ![w] = "done"]
    /\ LET method == msg[w].name
           r4 == res[w]
           h4 == IF is_ok(res[w])
                 THEN record_success(fast_requests, method, connection_acquired[w])
                 ELSE fast_requests
           e4 == IF is_ok(res[w])
                 THEN <<Event("fast_requests.observe",
                              request_success(connection_acquired[w]))>>
                 ELSE <<>>
           r5 == IF is_ok(r4) THEN r4 ELSE Err(ret_err(r4.e))
           h5 == IF is_ok(r4) THEN h4 ELSE record_failure(h4, method)
           e5 == IF is_ok(r4) THEN <<>> ELSE <<Event("fast_requests.observe", "false")>>
       IN  /\ res' = [res EXCEPT ![w] = r5]
           /\ fast_requests' = h5
           /\ events' = [events EXCEPT ![w] = @ \o e4 \o e5]
    /\ UNCHANGED <<pool, conns, request_count, connection_claim_times, calls,
                   msg, claim_result, conn, connection_acquired, response, log,
                   invoked>>

(* The call returns res[w] to the Fast server; the worker is free again. *)
return(w) ==
    /\ pc[w] = "done"
    /\ pc' = [pc EXCEPT ![w] = "idle"]
    /\ msg' = [msg EXCEPT ![w] = NoMsg]
    /\ claim_result' = [claim_result EXCEPT ![w] = NoResult]
    /\ res' = [res EXCEPT ![w] = NoResult]
    /\ connection_acquired' = [connection_acquired EXCEPT ![w] = TRUE]
    /\ response' = [response EXCEPT ![w] = <<>>]
    /\ log' = [log EXCEPT ![w] = <<>>]
    /\ events' = [events EXCEPT ![w] = <<>>]
    /\ invoked' = [invoked EXCEPT ![w] = <<>>]
    /\ UNCHANGED <<shared, conn>>

-----------------------------------------------------------------------------
(* The Fast server hands a message to a free worker.  Workers are
   interchangeable: the lowest free one takes it. *)
free(w) == pc[w] = "idle" /\ \A v \in Workers : v < w => pc[v] # "idle"

(* Spec: calls one at a time, requests from the whole of Msgs. *)

Start(w) ==
    /\ calls < MaxCalls
    /\ free(w)
    /\ \A v \in Workers : pc[v] = "idle"
    /\ \E m \in Msgs : handle_msg(w, m)

Next ==
    \E w \in Workers :
        \/ Start(w)
        \/ pool_claim(w)
        \/ claim_pool_connection(w)
        \/ dispatch(w)
        \/ action(w)
        \/ drop(w)
        \/ respond(w)
        \/ record(w)
        \/ return(w)

Spec == Init /\ [][Next]_vars

(* SpecConc: calls of all workers interleaved, requests from ConcMsgs. *)

StartConc(w) ==
    /\ calls < MaxConcCalls
    /\ free(w)
    /\ \E m \in ConcMsgs : handle_msg(w, m)

NextConc ==
    \E w \in Workers :
        \/ StartConc(w)
        \/ pool_claim(w)
        \/ claim_pool_connection(w)
        \/ dispatch(w)
        \/ action(w)
        \/ drop(w)
        \/ respond(w)
        \/ record(w)
        \/ return(w)

SpecConc == Init /\ [][NextConc]_vars

(* SpecLive: calls of all workers interleaved, requests from LiveMsgs.  A
   worker thread that has entered handle_msg keeps running: handle_msg has no
   loop and no wait of its own, the pool's claim returns within the pool's
   bound and the action terminates, so each step of a call is taken once it
   is due.  Every step of a call of worker w moves pc[w]. *)

StartLive(w) ==
    /\ calls < MaxLiveCalls
    /\ free(w)
    /\ \E m \in LiveMsgs : handle_msg(w, m)

Step(w) ==
    \/ pool_claim(w)
    \/ claim_pool_connection(w)
    \/ dispatch(w)
    \/ action(w)
    \/ drop(w)
    \/ respond(w)
    \/ record(w)
    \/ return(w)

NextLive == \E w \in Workers : StartLive(w) \/ Step(w)

SpecLive == Init /\ [][NextLive]_vars /\ \A w \in Workers : WF_(pc[w])(Step(w))

TypeOK ==
    /\ pool \subseteq conns
    /\ request_count \in Nat
    /\ \A w \in Workers : pc[w] \in {"idle", "claim", "claimed", "dispatch", "action",
                                     "drop", "respond", "record", "done"}

-----------------------------------------------------------------------------
(* Vocabulary of the properties.  A call of worker w is about to return
   res[w] when pc[w] = "done". *)

Returning(w) == pc[w] = "done"
ReturnsOk(w) == Returning(w) /\ res[w].tag = "Ok"
ReturnsErr(w) == Returning(w) /\ res[w].tag = "Err"

ClaimSucceeded(w) == claim_result[w].tag = "Ok"
ClaimTimedOut(w) == claim_result[w].tag = "Err" /\ claim_result[w].e = ClaimFailure
ClaimFailedOther(w) == claim_result[w].tag = "Err" /\ claim_result[w].e # ClaimFailure

Contains(text, s) == \E i \in DOMAIN text : text[i] = s

(* The labels this call has recorded into the histogram named by ev *)
LabelsOf(w, ev) == { events[w][i].arg : i \in { j \in DOMAIN events[w] : events[w][j].ev = ev } }

RECURSIVE SumOver(_, _)
SumOver(f, S) ==
    IF S = {} THEN 0
    ELSE LET k == CHOOSE x \in S : TRUE IN f[k] + SumOver(f, S \ {k})
Total(f) == SumOver(f, DOMAIN f)

-----------------------------------------------------------------------------
(* C1: a call whose claim failed with the claim timeout returns Ok with
   exactly one response message; the message has the id of the request and
   the data [{"error": {"name": "OverloadedError", "message": <text of the
   pool error>}}].  It does not return Err. *)
C1_OverloadResponse ==
    \A w \in Workers :
        (Returning(w) /\ ClaimTimedOut(w)) =>
            /\ res[w].tag = "Ok"
            /\ Len(res[w].v.vec) = 1
            /\ res[w].v.vec[1].id = msg[w].id
            /\ res[w].v.vec[1].d = <<[error |-> [name |-> "OverloadedError",
                                             message |-> to_string(ClaimFailure)]]>>

C1_Witness ==
    \E w \in Workers : Returning(w) /\ ClaimTimedOut(w) /\ msg[w].id = 2

(* C2 as stated: a call for a method name outside the registry returns Err
   with a message containing the name and no response messages, whatever the
   outcome of the claim. *)
C2_AnyClaimOutcome ==
    \A w \in Workers :
        (Returning(w) /\ msg[w].name \notin RegisteredMethods) =>
            /\ res[w].tag = "Err"
            /\ Contains(res[w].e.msg, msg[w].name)
            /\ response[w] = <<>>

(* C2 amended: when the claim returned a connection, a call for a method
   name outside the registry returns Err with a message containing the name
   and no response messages. *)
C2_UnregisteredAfterClaim ==
    \A w \in Workers :
        (Returning(w) /\ ClaimSucceeded(w) /\ msg[w].name \notin RegisteredMethods) =>
            /\ res[w].tag = "Err"
            /\ Contains(res[w].e.msg, msg[w].name)
            /\ response[w] = <<>>

C2_Witness ==
    \E w \in Workers :
        /\ Returning(w) /\ ClaimSucceeded(w)
        /\ msg[w].name = "GetObject"
        /\ res[w].tag = "Err"

(* C3: a call whose claim failed with a pool error other than the claim
   timeout returns Err with no response messages, has logged at error level,
   has recorded the label "false" in the request histogram, and has invoked
   neither a decode function nor an action. *)
C3_FatalPoolError ==
    \A w \in Workers :
        (Returning(w) /\ ClaimFailedOther(w)) =>
            /\ res[w].tag = "Err"
            /\ response[w] = <<>>
            /\ \E i \in DOMAIN log[w] : log[w][i].level = "error"
            /\ LabelsOf(w, "fast_requests.observe") = {"false"}
            /\ fast_requests[<<msg[w].name, "false">>] >= 1
            /\ Count(w, "decode_msg") = 0
            /\ Count(w, "action") = 0
            /\ invoked[w] = <<>>

C3_Witness ==
    \E w \in Workers :
        /\ Returning(w) /\ ClaimFailedOther(w)
        /\ msg[w].name = "getobject"
        /\ msg[w].d = JsonArray(1)

(* C4: the label a call records in the request histogram is "true" exactly
   when the claim returned a connection and the call returns Ok. *)
C4_OutcomeLabel ==
    \A w \in Workers :
        Returning(w) =>
            /\ LabelsOf(w, "fast_requests.observe") # {}
            /\ \A l \in LabelsOf(w, "fast_requests.observe") :
                 /\ (l = "true") <=> (ClaimSucceeded(w) /\ res[w].tag = "Ok")
                 /\ fast_requests[<<msg[w].name, l>>] >= 1

C4_Witness ==
    \E w \in Workers :
        /\ ReturnsOk(w) /\ ClaimSucceeded(w)
        /\ LabelsOf(w, "fast_requests.observe") = {"true"}

(* C5: a call that is about to return has recorded exactly one observation
   in the request histogram, and the histogram holds exactly one observation
   for every call that has reached its return. *)
C5_OneObservation ==
    /\ \A w \in Workers : Returning(w) => Count(w, "fast_requests.observe") = 1
    /\ Total(fast_requests) =
         calls - Cardinality({ w \in Workers : pc[w] \notin {"idle", "done"} })

C5_Witness ==
    \E w \in Workers :
        /\ ReturnsErr(w)
        /\ Count(w, "action") = 1
        /\ Count(w, "fast_requests.observe") = 1

(* C6: the request counter equals the number of calls entered, under every
   interleaving of the calls, and it never decreases. *)
C6_RequestCount ==
    /\ [](request_count = calls)
    /\ [][request_count' >= request_count]_vars

C6_Witness ==
    /\ request_count = 2
    /\ \A w \in Workers : pc[w] \notin {"idle", "claim"}

(* C7: a call makes one claim attempt, never a second one; the claim
   histogram gets one observation for the attempt, labelled "true" exactly
   when the attempt returned a connection; and the histogram holds one
   observation for every attempt made. *)
C7_OneClaim ==
    /\ \A w \in Workers : Count(w, "pool.claim") <= 1
    /\ \A w \in Workers :
         Returning(w) =>
            /\ Count(w, "pool.claim") = 1
            /\ Count(w, "connection_claim_times.observe") = 1
            /\ LabelsOf(w, "connection_claim_times.observe") =
                 {IF ClaimSucceeded(w) THEN "true" ELSE "false"}
    /\ Total(connection_claim_times) =
         calls - Cardinality({ w \in Workers : pc[w] \in {"claim", "claimed"} })

C7_Witness ==
    \E w \in Workers :
        /\ Returning(w)
        /\ ~ClaimSucceeded(w)
        /\ LabelsOf(w, "connection_claim_times.observe") = {"false"}
        /\ connection_claim_times["false"] = 1

(* C8: under every interleaving, a call owns at most one connection, an
   owned connection is not idle in the pool and is owned by no other call, a
   call that is about to return owns none, and every connection is either
   idle or owned. *)
C8_Connections ==
    /\ \A w \in Workers : Count(w, "pool.claim") <= 1
    /\ \A w \in Workers : conn[w] # 0 => conn[w] \in conns \ pool
    /\ \A w, v \in Workers : (w # v /\ conn[w] # 0) => conn[w] # conn[v]
    /\ \A w \in Workers : pc[w] \in {"idle", "done"} => conn[w] = 0
    /\ pool \cup { conn[w] : w \in { v \in Workers : conn[v] # 0 } } = conns

C8_Witness ==
    \E w, v \in Workers :
        /\ w # v
        /\ ReturnsErr(w) /\ ClaimSucceeded(w)
        /\ conn[v] = claim_result[w].v.conn

(* C9 as stated: with a successful claim, a call for an unregistered method
   name m returns Err whose message contains "Unsupported function: "
   followed by m. *)
C9_UnsupportedFunctionText ==
    \A w \in Workers :
        (Returning(w) /\ ClaimSucceeded(w) /\ msg[w].name \notin RegisteredMethods) =>
            /\ res[w].tag = "Err"
            /\ \E i \in 1 .. Len(res[w].e.msg) - 1 :
                 /\ res[w].e.msg[i] = "Unsupported function: "
                 /\ res[w].e.msg[i + 1] = msg[w].name

(* C10: with a successful claim and a registered method, a payload that
   decodes to an empty array makes the call return Err with the message
   "Failed to parse JSON data as payload for {method} function" without an
   invocation of the action; a payload that decodes to a longer array makes
   the action run exactly once, on the first element. *)
C10_Envelope ==
    \A w \in Workers :
        (Returning(w) /\ ClaimSucceeded(w) /\ msg[w].name \in RegisteredMethods
            /\ is_ok(decode_msg(msg[w].d))) =>
            LET arr == decode_msg(msg[w].d).v IN
            IF Len(arr) = 0
            THEN /\ res[w].tag = "Err"
                 /\ res[w].e.msg = <<"Failed to parse JSON data as payload for ",
                                     msg[w].name, " function">>
                 /\ invoked[w] = <<>>
                 /\ Count(w, "action") = 0
            ELSE /\ Len(invoked[w]) = 1
                 /\ Count(w, "action") = 1
                 /\ invoked[w][1].payload = arr[1]

C10_Witness ==
    \E w \in Workers :
        /\ Returning(w) /\ ClaimSucceeded(w)
        /\ msg[w].d = JsonArray(2)
        /\ Len(invoked[w]) = 1
        /\ invoked[w][1].payload = Payload(JsonItem(1))

(* The module of the crate that owns each wire method *)
OwnModule ==
    [getobject |-> "object::get", createobject |-> "object::create",
     updateobject |-> "object::update", deleteobject |-> "object::delete",
     listobjects |-> "object::list", getbucket |-> "bucket::get",
     createbucket |-> "bucket::create", deletebucket |-> "bucket::delete",
     listbuckets |-> "bucket::list", getgcbatch |-> "gc::get",
     deletegcbatch |-> "gc::delete"]

(* C11: with a successful claim, a call for one of the eleven registered
   method names runs the decode function of that method's own module, once,
   and every action it invokes is that module's action; it invokes the action
   when the payload decodes to a non-empty array.  A name that differs from
   a registered one, be it only in case, runs no decode function and no
   action. *)
C11_OwnDecodeAndAction ==
    /\ DOMAIN OwnModule = RegisteredMethods
    /\ Cardinality(RegisteredMethods) = 11
    /\ \A w \in Workers :
         (Returning(w) /\ ClaimSucceeded(w)) =>
            IF msg[w].name \in DOMAIN OwnModule
            THEN LET own == OwnModule[msg[w].name] IN
                 /\ Count(w, "decode_msg") = 1
                 /\ LabelsOf(w, "decode_msg") = {own \o "::decode_msg"}
                 /\ LabelsOf(w, "action") \subseteq {own \o "::action"}
                 /\ \A i \in DOMAIN invoked[w] : invoked[w][i].action = own \o "::action"
                 /\ (msg[w].d.json = "array" /\ msg[w].d.arr # <<>>) =>
                        (Count(w, "action") = 1 /\ Len(invoked[w]) = 1)
            ELSE /\ Count(w, "decode_msg") = 0
                 /\ Count(w, "action") = 0
                 /\ invoked[w] = <<>>

C11_Witness ==
    \E w \in Workers :
        /\ Returning(w) /\ ClaimSucceeded(w)
        /\ msg[w].name = "deletegcbatch"
        /\ Len(invoked[w]) = 1
        /\ invoked[w][1].action = "gc::delete::action"

(* C12: every message a call returns carries the id of its request, and
   every action the call invokes is given that id: the overload response is
   built with it, and the messages an action builds carry the id the action
   was given. *)
C12_CorrelationId ==
    \A w \in Workers :
        Returning(w) =>
            /\ \A i \in DOMAIN invoked[w] : invoked[w][i].msg_id = msg[w].id
            /\ res[w].tag = "Ok" =>
                  \A i \in DOMAIN res[w].v.vec : res[w].v.vec[i].id = msg[w].id

C12_Witness ==
    \E w \in Workers :
        /\ ReturnsOk(w) /\ ClaimSucceeded(w)
        /\ msg[w].id = 2
        /\ Len(res[w].v.vec) = MaxMsgs
        /\ res[w].v.vec[MaxMsgs].id = 2

(* C13: every call that has entered handle_msg reaches its return, whatever
   the other calls do and however few connections the pool has; a call that
   finds the pool exhausted returns Ok with the overload response or Err, and
   does so while the connections are still held by others. *)
C13_EventuallyReturns ==
    /\ \A w \in Workers : (pc[w] = "claim") ~> Returning(w)
    /\ [](\A w \in Workers :
            (Returning(w) /\ ~ClaimSucceeded(w)) =>
                \/ res[w].tag = "Err"
                \/ /\ res[w].tag = "Ok"
                   /\ res[w].v.vec = <<FastMessage(msg[w].id, msg[w].name, overloaded_value)>>)

C13_Witness ==
    \E w, v \in Workers :
        /\ w # v
        /\ Returning(w) /\ ClaimTimedOut(w) /\ res[w].tag = "Ok"
        /\ conns # {} /\ pool = {}
        /\ conn[v] # 0 /\ pc[v] = "action"

(* C14: a call that returns Err returns an IO error of kind Other whose text
   is the text of the failure it stems from: the Display text of the pool
   error after a pool error other than the claim timeout, the decoder's
   message when the payload does not decode, the envelope message when it
   decodes to an empty array, and the action's error string when the action
   fails. *)
C14_ErrorText ==
    \A w \in Workers :
        ReturnsErr(w) =>
            /\ res[w].e.kind = "Other"
            /\ ClaimFailedOther(w) =>
                  res[w].e.msg = <<"cueball::Error::" \o claim_result[w].e>>
            /\ (ClaimSucceeded(w) /\ msg[w].name \in RegisteredMethods) =>
                  IF msg[w].d.json = "malformed"
                  THEN res[w].e.msg = decode_msg(msg[w].d).e
                  ELSE IF msg[w].d.arr = <<>>
                  THEN res[w].e.msg = <<"Failed to parse JSON data as payload for ",
                                        msg[w].name, " function">>
                  ELSE /\ Len(invoked[w]) = 1
                       /\ invoked[w][1].result.tag = "Err"
                       /\ res[w].e.msg = invoked[w][1].result.e

C14_Witness ==
    \E w \in Workers :
        /\ ReturnsErr(w)
        /\ Len(invoked[w]) = 1
        /\ invoked[w][1].result.tag = "Err"
        /\ res[w].e.msg = ActionErrorText

(* C15: when the action of a call returned success, the call returns Ok
   with exactly the action's output: the one message of a Message result, or
   the messages of a Messages result in the action's order, none added, none
   dropped; an empty Messages result gives Ok with the empty list. *)
C15_ActionOutput ==
    \A w \in Workers :
        (Returning(w) /\ Len(invoked[w]) = 1 /\ invoked[w][1].result.tag = "Ok") =>
            LET hr == invoked[w][1].result.v IN
            /\ res[w].tag = "Ok"
            /\ IF hr.kind = "Message"
               THEN Len(res[w].v.vec) = 1 /\ res[w].v.vec[1] = hr.m
               ELSE /\ Len(res[w].v.vec) = Len(hr.ms)
                    /\ \A i \in DOMAIN hr.ms : res[w].v.vec[i] = hr.ms[i]

C15_Witness ==
    \E w \in Workers :
        /\ ReturnsOk(w)
        /\ Len(invoked[w]) = 1
        /\ invoked[w][1].result.tag = "Ok"
        /\ invoked[w][1].result.v.kind = "Messages"
        /\ Len(res[w].v.vec) = MaxMsgs
        /\ res[w].v.vec[1] # res[w].v.vec[MaxMsgs]

(* C16: with a successful claim and a registered method, a payload that does
   not decode makes the call return Err with the decoder's message; the
   decode function ran once, no action was invoked, the pool was claimed
   once, and the label recorded in the request histogram is "false". *)
C16_DecodeFailure ==
    \A w \in Workers :
        (Returning(w) /\ ClaimSucceeded(w) /\ msg[w].name \in RegisteredMethods
            /\ msg[w].d.json = "malformed") =>
            /\ res[w].tag = "Err"
            /\ res[w].e.msg = decode_msg(msg[w].d).e
            /\ response[w] = <<>>
            /\ Count(w, "decode_msg") = 1
            /\ Count(w, "action") = 0
            /\ invoked[w] = <<>>
            /\ Count(w, "pool.claim") = 1
            /\ LabelsOf(w, "fast_requests.observe") = {"false"}
            /\ fast_requests[<<msg[w].name, "false">>] >= 1

C16_Witness ==
    \E w \in Workers :
        /\ ReturnsErr(w) /\ ClaimSucceeded(w)
        /\ msg[w].name = "deletegcbatch"
        /\ msg[w].d = Malformed
        /\ res[w].e.msg = SerdeErrorText

(* C17: a call whose claim failed runs no lookup, no decode function and no
   action; and, under every interleaving, two calls whose claims failed with
   the same pool error and whose requests have the same id get results that
   agree up to the method name: after the claim timeout both return Ok with
   one message of the same id and the same overload body, named after their
   own method; after another pool error both return the same Err.  With the
   same method name the two calls agree in result, effects and log, whatever
   their payloads. *)
C17_ClaimFirst ==
    /\ \A w \in Workers :
         claim_result[w].tag = "Err" =>
            /\ Count(w, "lookup") = 0
            /\ Count(w, "decode_msg") = 0
            /\ Count(w, "action") = 0
            /\ invoked[w] = <<>>
    /\ \A w, v \in Workers :
         (/\ Returning(w) /\ Returning(v)
          /\ claim_result[w].tag = "Err" /\ claim_result[v].tag = "Err"
          /\ claim_result[w].e = claim_result[v].e
          /\ msg[w].id = msg[v].id) =>
            /\ res[w].tag = res[v].tag
            /\ res[w].tag = "Err" => res[w] = res[v]
            /\ res[w].tag = "Ok" =>
                  /\ Len(res[w].v.vec) = 1 /\ Len(res[v].v.vec) = 1
                  /\ res[w].v.vec[1].id = res[v].v.vec[1].id
                  /\ res[w].v.vec[1].d = res[v].v.vec[1].d
                  /\ res[w].v.vec[1].name = msg[w].name
            /\ msg[w].name = msg[v].name =>
                  /\ res[w] = res[v]
                  /\ events[w] = events[v]
                  /\ log[w] = log[v]

C17_Witness ==
    \E w, v \in Workers :
        /\ Returning(w) /\ Returning(v)
        /\ ClaimTimedOut(w) /\ ClaimTimedOut(v)
        /\ msg[w].name = "getobject" /\ msg[w].d = Malformed
        /\ msg[v].name = "getobject" /\ msg[v].d = JsonArray(1)
        /\ res[w] = res[v]

(* The place of each effect in the order of a call *)
Rank ==
    [e \in {"request_count.inc", "pool.claim", "connection_claim_times.observe",
            "lookup", "decode_msg", "action", "drop", "fast_requests.observe"} |->
        CASE e = "request_count.inc" -> 1
          [] e = "pool.claim" -> 2
          [] e = "connection_claim_times.observe" -> 3
          [] e = "lookup" -> 4
          [] e = "decode_msg" -> 5
          [] e = "action" -> 6
          [] e = "drop" -> 7
          [] e = "fast_requests.observe" -> 8]

Happened(w, e) == Count(w, e) >= 1

(* C18: the effects of a call occur in the order request counter, claim,
   claim observation, lookup, decode, action, release of the connection,
   request observation, each at most once.  A call that is about to return
   has incremented the counter, claimed, observed the claim and observed the
   request; it has looked up, decoded or invoked only after a successful
   claim, decoded only after the lookup and invoked only after the decoding;
   it has released a connection exactly when it had claimed one.  At the
   step that records the request observation the call holds no connection
   and the one it had claimed is idle in the pool. *)
C18_EventOrder ==
    /\ [](\A w \in Workers :
            /\ \A i \in DOMAIN events[w] : events[w][i].ev \in DOMAIN Rank
            /\ \A i, j \in DOMAIN events[w] :
                  i < j => Rank[events[w][i].ev] < Rank[events[w][j].ev]
            /\ Returning(w) =>
                  /\ Happened(w, "request_count.inc")
                  /\ Happened(w, "pool.claim")
                  /\ Happened(w, "connection_claim_times.observe")
                  /\ Happened(w, "fast_requests.observe")
                  /\ Happened(w, "lookup") => ClaimSucceeded(w)
                  /\ Happened(w, "decode_msg") => Happened(w, "lookup")
                  /\ Happened(w, "action") => Happened(w, "decode_msg")
                  /\ ClaimSucceeded(w) => Happened(w, "lookup")
                  /\ Happened(w, "drop") <=> ClaimSucceeded(w))
    /\ [][\A w \in Workers :
            (~Happened(w, "fast_requests.observe") /\ Happened(w, "fast_requests.observe")') =>
                /\ conn[w] = 0
                /\ Happened(w, "drop") <=> ClaimSucceeded(w)
                /\ ClaimSucceeded(w) => claim_result[w].v.conn \in pool]_pc

C18_Witness ==
    \E w \in Workers :
        /\ Returning(w)
        /\ [i \in DOMAIN events[w] |-> events[w][i].ev] =
             <<"request_count.inc", "pool.claim", "connection_claim_times.observe",
               "lookup", "decode_msg", "action", "drop", "fast_requests.observe">>
        /\ claim_result[w].v.conn \in pool

(* The call of worker w is for a method name outside the registry *)
Unregistered(w) == pc[w] # "idle" /\ msg[w].name \notin RegisteredMethods

(* C19: under every interleaving, a call for an unregistered method name is
   rejected only after it has claimed a connection; from the claim until
   the rejection is complete it owns that connection, which is then not idle
   in the pool; when it is about to return it has claimed once, released
   once and owns nothing, and the connection it had is idle or owned by
   another call.  No connection is lost: each one is idle or owned. *)
C19_RejectedRequests ==
    /\ \A w \in Workers :
         (Unregistered(w) /\ Happened(w, "lookup")) =>
            /\ ClaimSucceeded(w)
            /\ Count(w, "pool.claim") = 1
            /\ res[w].tag = "Err"
    /\ \A w \in Workers :
         (Unregistered(w) /\ ClaimSucceeded(w) /\ ~Happened(w, "drop")) =>
            /\ conn[w] = claim_result[w].v.conn
            /\ conn[w] \notin pool
            /\ \A v \in Workers : v # w => conn[v] # conn[w]
    /\ \A w \in Workers :
         (Unregistered(w) /\ ClaimSucceeded(w) /\ Returning(w)) =>
            /\ Count(w, "drop") = 1
            /\ conn[w] = 0
            /\ \/ claim_result[w].v.conn \in pool
               \/ \E v \in Workers : v # w /\ conn[v] = claim_result[w].v.conn
    /\ pool \cup { conn[w] : w \in { v \in Workers : conn[v] # 0 } } = conns

C19_Witness ==
    \E w, v \in Workers :
        /\ w # v
        /\ Unregistered(w) /\ pc[w] = "drop" /\ conn[w] # 0
        /\ res[w].tag = "Err"
        /\ msg[v].name = "getobject" /\ msg[v].d = JsonArray(1)
        /\ Returning(v) /\ ClaimTimedOut(v)

(* C20: a call returns Ok only as the overload response after a claim
   timeout, with no action invoked, or after a successful claim for a
   registered method whose payload decoded to a non-empty array and whose
   action returned success, and then with the action's messages; every
   other call returns Err, and a call that returns Err has put no message
   into its response vector. *)
C20_OkPaths ==
    \A w \in Workers :
        Returning(w) =>
            LET success_path ==
                    /\ ClaimSucceeded(w)
                    /\ msg[w].name \in RegisteredMethods
                    /\ msg[w].d.json = "array"
                    /\ msg[w].d.arr # <<>>
                    /\ Len(invoked[w]) = 1
                    /\ invoked[w][1].result.tag = "Ok"
            IN  /\ res[w].tag \in {"Ok", "Err"}
                /\ res[w].tag = "Err" => response[w] = <<>>
                /\ res[w].tag = "Ok" <=> (ClaimTimedOut(w) \/ success_path)
                /\ (res[w].tag = "Ok" /\ ClaimTimedOut(w)) =>
                      /\ invoked[w] = <<>>
                      /\ Len(res[w].v.vec) = 1
                      /\ res[w].v.vec[1].d[1].error.name = "OverloadedError"
                /\ (res[w].tag = "Ok" /\ success_path) =>
                      LET hr == invoked[w][1].result.v IN
                      res[w].v.vec = IF hr.kind = "Message" THEN <<hr.m>> ELSE hr.ms

C20_Witness ==
    \E w \in Workers :
        /\ ReturnsOk(w) /\ ClaimSucceeded(w)
        /\ msg[w].name = "listobjects"
        /\ msg[w].d = JsonArray(MaxLen)
        /\ Len(res[w].v.vec) = MaxMsgs

====
